---- MODULE Spec2Model ----
(***************************************************************************)
(* rectcut.py: a rectangle is cut into smaller ones (class Rects), with a  *)
(* preview of the next cut, an alternating cut direction, and accessors    *)
(* onto one edge of a rectangle (class RectAttr).                          *)
(***************************************************************************)
EXTENDS Integers, Sequences, FiniteSets, TLC

VARIABLES rects,      \* Rects.rects: the list of rectangles
          preview,    \* Rects.preview: None or (start, end)
          slicedir,   \* Rects.slicedir: the current member of Cut
          slicedirs,  \* Rects.slicedirs: position of the itertools.cycle iterator
          root,       \* RectCutState.initial_rect: the rectangle Rects was built from
          toggles,    \* history: number of switchdir() calls so far
          last,       \* history: the last call made and its argument
          arects,     \* the rectangles RectAttr objects refer to
          ret,        \* the value the last RectAttr call returned
          engine      \* Engine.running, the QUIT posted by quit(), and the
                      \* history of the last Engine.update pass

vars ==
    <<rects, preview, slicedir, slicedirs, root, toggles, last, arects, ret,
      engine>>

partition == <<rects, preview, slicedir, slicedirs, root, toggles>>

(* ------------------------------ bounds --------------------------------- *)

MaxW == 4          \* widest root rectangle explored cell by cell
MaxH == 3          \* tallest root rectangle explored cell by cell
MaxToggles == 3    \* switchdir() calls followed in one behaviour
MaxCoord == 3      \* largest coordinate / size of a RectAttr rectangle

(* --------------------------- pygame.Rect ------------------------------- *)

Rect(l, t, w, h) == [left |-> l, top |-> t, width |-> w, height |-> h]

right(r) == r.left + r.width

bottom(r) == r.top + r.height

\* Rect.collidepoint: the right and bottom edges are exclusive
collidepoint(r, pos) ==
    /\ r.left <= pos[1] /\ pos[1] < right(r)
    /\ r.top <= pos[2] /\ pos[2] < bottom(r)

\* truth value of a Rect, as tested by "if cut:"
RectBool(r) == r.width # 0 /\ r.height # 0

None == <<>>

(* ------------------------------ Cut ------------------------------------ *)

VERTICAL == "VERTICAL"

HORIZONTAL == "HORIZONTAL"

\* iteration order of the enum
Cut == <<VERTICAL, HORIZONTAL>>

\* itertools.cycle(Cut): the member next() yields at position i, and the
\* position after it
CycleValue(i) == Cut[i]

\* mutant: the iterator is never advanced
CycleAdvance_stuck(i) == i

CycleAdvance(i) == (i % Len(Cut)) + 1

(* ----------------------- module-level functions ------------------------ *)

\* mutant: the first part's size is taken as the absolute coordinate
cutrect_absolute(rect, dir, pos) ==
    IF dir = VERTICAL
    THEN << Rect(rect.left, rect.top, pos[1], rect.height),
            Rect(pos[1], rect.top, right(rect) - pos[1], rect.height) >>
    ELSE << Rect(rect.left, rect.top, rect.width, pos[2]),
            Rect(rect.left, pos[2], rect.width, bottom(rect) - pos[2]) >>

\* mutant: the second part starts one pixel early
cutrect_overlap(rect, dir, pos) ==
    IF dir = VERTICAL
    THEN << Rect(rect.left, rect.top, pos[1] - rect.left, rect.height),
            Rect(pos[1] - 1, rect.top, right(rect) - pos[1], rect.height) >>
    ELSE << Rect(rect.left, rect.top, rect.width, pos[2] - rect.top),
            Rect(rect.left, pos[2] - 1, rect.width, bottom(rect) - pos[2]) >>

\* mutant: the second part starts one pixel late
cutrect_gap(rect, dir, pos) ==
    IF dir = VERTICAL
    THEN << Rect(rect.left, rect.top, pos[1] - rect.left, rect.height),
            Rect(pos[1] + 1, rect.top, right(rect) - pos[1], rect.height) >>
    ELSE << Rect(rect.left, rect.top, rect.width, pos[2] - rect.top),
            Rect(rect.left, pos[2] + 1, rect.width, bottom(rect) - pos[2]) >>

cutrect(rect, dir, pos) ==
    IF dir = VERTICAL
    THEN << Rect(rect.left, rect.top, pos[1] - rect.left, rect.height),
            Rect(pos[1], rect.top, right(rect) - pos[1], rect.height) >>
    ELSE << Rect(rect.left, rect.top, rect.width, pos[2] - rect.top),
            Rect(rect.left, pos[2], rect.width, bottom(rect) - pos[2]) >>

\* mutant: the line runs to bottom / right instead of one pixel before
cutrectline_long(rect, dir, pos) ==
    IF dir = VERTICAL
    THEN << <<pos[1], rect.top>>, <<pos[1], bottom(rect)>> >>
    ELSE << <<rect.left, pos[2]>>, <<right(rect), pos[2]>> >>

cutrectline(rect, dir, pos) ==
    IF dir = VERTICAL
    THEN << <<pos[1], rect.top>>, <<pos[1], bottom(rect) - 1>> >>
    ELSE << <<rect.left, pos[2]>>, <<right(rect) - 1, pos[2]>> >>

(* ------------------------------ Rects ---------------------------------- *)

\* mutant: only the right border column is tested, the left one is not
Hit_leftok(r, pos) ==
    /\ collidepoint(r, pos)
    /\ pos[1] # right(r) - 1
    /\ ~ (pos[2] \in {r.top, bottom(r) - 1})

\* mutant: the test of the top and bottom border rows is left out
Hit_noelif(r, pos) ==
    /\ collidepoint(r, pos)
    /\ ~ (pos[1] \in {r.left, right(r) - 1})

\* the body of the loops of Rects.cutrect and Rects.update_preview: the
\* rectangle holds the point and the point is on none of its border pixels
Hit(r, pos) ==
    /\ collidepoint(r, pos)
    /\ ~ (pos[1] \in {r.left, right(r) - 1})
    /\ ~ (pos[2] \in {r.top, bottom(r) - 1})

\* "for rect in self.rects: ... break": index of the first rectangle the loop
\* stops at, 0 when the loop runs to its end
RECURSIVE Scan(_, _, _)
Scan(s, pos, i) ==
    IF i > Len(s) THEN 0
    ELSE IF Hit(s[i], pos) THEN i
    ELSE Scan(s, pos, i + 1)

\* list.remove(x): drops the first element equal to x
RECURSIVE ListRemove(_, _)
ListRemove(s, x) ==
    IF s = <<>> THEN <<>>
    ELSE IF Head(s) = x THEN Tail(s)
    ELSE <<Head(s)>> \o ListRemove(Tail(s), x)

\* mutant: the rectangle that is cut stays in the list
CutList_keep(s, dir, pos) ==
    LET i == Scan(s, pos, 1) IN
    IF i # 0 /\ RectBool(s[i])
    THEN LET ab == cutrect(s[i], dir, pos)
         IN  Append(Append(s, ab[1]), ab[2])
    ELSE s

\* mutant: the two parts are appended in the other order
CutList_swapped(s, dir, pos) ==
    LET i == Scan(s, pos, 1) IN
    IF i # 0 /\ RectBool(s[i])
    THEN LET ab == cutrect(s[i], dir, pos)
         IN  Append(Append(ListRemove(s, s[i]), ab[2]), ab[1])
    ELSE s

\* the list Rects.cutrect(pos) leaves in self.rects
CutList(s, dir, pos) ==
    LET i == Scan(s, pos, 1) IN
    IF i # 0 /\ RectBool(s[i])
    THEN LET ab == cutrect(s[i], dir, pos)
         IN  Append(Append(ListRemove(s, s[i]), ab[1]), ab[2])
    ELSE s

\* mutant: the else branch of the loop is missing, the old preview stays
PreviewValue_keep(s, dir, old, pos) ==
    LET i == Scan(s, pos, 1) IN
    IF i # 0 THEN cutrectline(s[i], dir, pos) ELSE old

\* the value Rects.update_preview(pos) leaves in self.preview
PreviewValue(s, dir, old, pos) ==
    LET i == Scan(s, pos, 1) IN
    IF i # 0 THEN cutrectline(s[i], dir, pos) ELSE None

(* ------------------------------ inputs --------------------------------- *)

\* the rectangle of run(), cut in the example of the documentation
ExampleRoot == Rect(0, 0, 100, 100)

ExampleCoords == {0, 25, 50, 99, 100}

\* small roots sit away from the origin; ExampleRoot sits on it
Origins == {<<1, 2>>}

Roots ==
    { Rect(o[1], o[2], w, h) : o \in Origins, w \in 1..MaxW, h \in 1..MaxH }
    \cup {ExampleRoot}

\* the points tried on a root: every cell of it and one ring around it
Points(r) ==
    IF r = ExampleRoot
    THEN ExampleCoords \X ExampleCoords
    ELSE ((r.left - 1)..right(r)) \X ((r.top - 1)..bottom(r))

\* the rectangles a RectAttr is made on, and the values passed to it
AttrRects == { Rect(l, 0, w, 1) : l \in 0..MaxCoord, w \in 0..MaxCoord }

AttrValues == 0..MaxCoord

Attributes == {"left", "right"}

(* ----------------------------- RectAttr -------------------------------- *)

\* getattr(rect, name) on a pygame.Rect
getattr(r, name) ==
    IF name = "left" THEN r.left
    ELSE IF name = "right" THEN right(r)
    ELSE IF name = "top" THEN r.top
    ELSE IF name = "bottom" THEN bottom(r)
    ELSE IF name = "width" THEN r.width
    ELSE r.height

\* mutant: the comparison is made with what the value getter returns
collideattr_value(r, attribute, value) ==
    value = (IF attribute = "right" THEN r.width ELSE r.left)

\* RectAttr.collideattr(value)
collideattr(r, attribute, value) == getattr(r, attribute) = value

\* mutant: reading `right` returns the absolute right coordinate
value_get_abs(r, attribute) ==
    IF attribute = "right" THEN getattr(r, "right")
    ELSE IF attribute = "left" THEN getattr(r, "left")
    ELSE None

\* RectAttr.value, the getter
value_get(r, attribute) ==
    IF attribute = "right" THEN getattr(r, "width")
    ELSE IF attribute = "left" THEN getattr(r, "left")
    ELSE None

\* mutant: writing `left` moves the rectangle and keeps its width
value_set_move(r, attribute, value) ==
    IF attribute = "right" THEN [r EXCEPT !.width = value]
    ELSE IF attribute = "left" THEN [r EXCEPT !.left = value]
    ELSE r

\* RectAttr.value, the setter: the rectangle it leaves
value_set(r, attribute, value) ==
    IF attribute = "right" THEN [r EXCEPT !.width = value]
    ELSE IF attribute = "left"
    THEN LET diff == r.left - value
         IN  [r EXCEPT !.left = value, !.width = r.width + diff]
    ELSE r

(* ------------------------------ states --------------------------------- *)

Call(op, arg) == [op |-> op, arg |-> arg]

\* Engine.__init__ and run(): running, nothing posted, no pass made yet
EngineStart ==
    [running |-> TRUE, posted |-> FALSE, batch |-> <<>>, applied |-> <<>>,
     len0 |-> 1]

\* Rects.__init__(root)
Init ==
    /\ root \in Roots
    /\ rects = <<root>>
    /\ preview = None
    /\ slicedirs = CycleAdvance(1)
    /\ slicedir = CycleValue(1)
    /\ toggles = 0
    /\ last = Call("init", None)
    /\ arects = <<Rect(0, 0, 1, 1)>>
    /\ ret = None
    /\ engine = EngineStart

\* the partition restricted to the roots explored cell by cell
InitCells == Init /\ root # ExampleRoot

\* mutant: a cut drops the preview
Rects_cutrect_clear(pos) ==
    /\ rects' = CutList(rects, slicedir, pos)
    /\ preview' = None
    /\ last' = Call("cutrect", pos)
    /\ UNCHANGED <<slicedir, slicedirs, root, toggles, arects, ret, engine>>

\* Rects.cutrect(pos)
Rects_cutrect(pos) ==
    /\ rects' = CutList(rects, slicedir, pos)
    /\ last' = Call("cutrect", pos)
    /\ UNCHANGED <<preview, slicedir, slicedirs, root, toggles, arects, ret, engine>>

\* mutant: the preview update makes the cut it previews
Rects_update_preview_cut(pos) ==
    /\ preview' = PreviewValue(rects, slicedir, preview, pos)
    /\ rects' = CutList(rects, slicedir, pos)
    /\ last' = Call("update_preview", pos)
    /\ UNCHANGED <<slicedir, slicedirs, root, toggles, arects, ret, engine>>

\* Rects.update_preview(pos)
Rects_update_preview(pos) ==
    /\ preview' = PreviewValue(rects, slicedir, preview, pos)
    /\ last' = Call("update_preview", pos)
    /\ UNCHANGED <<rects, slicedir, slicedirs, root, toggles, arects, ret, engine>>

\* mutant: switching the direction also drops the preview
Rects_switchdir_clear ==
    /\ toggles < MaxToggles
    /\ slicedir' = CycleValue(slicedirs)
    /\ slicedirs' = CycleAdvance(slicedirs)
    /\ toggles' = toggles + 1
    /\ preview' = None
    /\ last' = Call("switchdir", None)
    /\ UNCHANGED <<rects, root, arects, ret, engine>>

\* Rects.switchdir()
Rects_switchdir ==
    /\ toggles < MaxToggles
    /\ slicedir' = CycleValue(slicedirs)
    /\ slicedirs' = CycleAdvance(slicedirs)
    /\ toggles' = toggles + 1
    /\ last' = Call("switchdir", None)
    /\ UNCHANGED <<rects, preview, root, arects, ret, engine>>

Next ==
    \/ \E pos \in Points(root) : Rects_cutrect(pos)
    \/ \E pos \in Points(root) : Rects_update_preview(pos)
    \/ Rects_switchdir

Spec == Init /\ [][Next]_vars

SpecCells == InitCells /\ [][Next]_vars

(* ----------------------- RectCutState and Engine ----------------------- *)

\* ScaledDisplay.xscale and yscale for the screen run() makes
xscale == 8

yscale == 8

\* ScaledDisplay.tospace
tospace(pos) == <<pos[1] \div xscale, pos[2] \div yscale>>

\* a screen pixel that shows the point p of the partition
ScreenPos(p) ==
    <<p[1] * xscale + (p[2] % xscale), p[2] * yscale + (p[1] % yscale)>>

\* the Rects object and what the handlers do besides: the calls made on it,
\* the QUIT posted, Engine.running
PState ==
    [rects |-> rects, preview |-> preview, slicedir |-> slicedir,
     slicedirs |-> slicedirs, toggles |-> toggles, calls |-> <<>>,
     posted |-> FALSE, running |-> engine.running]

St_cutrect(st, pos) ==
    [st EXCEPT !.rects = CutList(st.rects, st.slicedir, pos),
               !.calls = Append(@, Call("cutrect", pos))]

St_update_preview(st, pos) ==
    [st EXCEPT !.preview = PreviewValue(st.rects, st.slicedir, st.preview, pos),
               !.calls = Append(@, Call("update_preview", pos))]

St_switchdir(st) ==
    [st EXCEPT !.slicedir = CycleValue(st.slicedirs),
               !.slicedirs = CycleAdvance(st.slicedirs),
               !.toggles = @ + 1,
               !.calls = Append(@, Call("switchdir", None))]

\* RectCutState.on_keydown; quit() posts a QUIT event
on_keydown(st, event) ==
    IF event.key \in {"K_ESCAPE", "K_q"}
    THEN [st EXCEPT !.posted = TRUE]
    ELSE st

\* mutant: the right button switches the direction and leaves the preview
on_mousebuttondown_noupdate(st, event) ==
    IF event.button = "BUTTON_LEFT"
    THEN St_cutrect(st, tospace(event.pos))
    ELSE IF event.button = "BUTTON_RIGHT"
    THEN St_switchdir(st)
    ELSE st

\* RectCutState.on_mousebuttondown
on_mousebuttondown(st, event) ==
    IF event.button = "BUTTON_LEFT"
    THEN St_cutrect(st, tospace(event.pos))
    ELSE IF event.button = "BUTTON_RIGHT"
    THEN St_update_preview(St_switchdir(st), tospace(event.pos))
    ELSE st

\* RectCutState.on_mousemotion
on_mousemotion(st, event) == St_update_preview(st, tospace(event.pos))

\* connect_events(state): the event types that have an on_ method
HandledTypes == {"KEYDOWN", "MOUSEBUTTONDOWN", "MOUSEMOTION"}

\* mutant: the loop stops handling events once it has seen QUIT
Dispatch_break(st, event) ==
    IF ~ st.running THEN st
    ELSE IF event.type = "QUIT" THEN [st EXCEPT !.running = FALSE]
    ELSE IF event.type = "KEYDOWN" THEN on_keydown(st, event)
    ELSE IF event.type = "MOUSEBUTTONDOWN" THEN on_mousebuttondown(st, event)
    ELSE IF event.type = "MOUSEMOTION" THEN on_mousemotion(st, event)
    ELSE st

\* the body of the loop of Engine.update
Dispatch(st, event) ==
    IF event.type = "QUIT" THEN [st EXCEPT !.running = FALSE]
    ELSE IF event.type \in HandledTypes
    THEN IF event.type = "KEYDOWN" THEN on_keydown(st, event)
         ELSE IF event.type = "MOUSEBUTTONDOWN" THEN on_mousebuttondown(st, event)
         ELSE on_mousemotion(st, event)
    ELSE st

\* "for event in pygame.event.get(): ..."
RECURSIVE DispatchAll(_, _)
DispatchAll(st, events) ==
    IF events = <<>> THEN st
    ELSE DispatchAll(Dispatch(st, Head(events)), Tail(events))

MouseButtonDown(button, p) ==
    [type |-> "MOUSEBUTTONDOWN", button |-> button, pos |-> ScreenPos(p)]

MouseMotion(p) == [type |-> "MOUSEMOTION", pos |-> ScreenPos(p)]

KeyDown(key) == [type |-> "KEYDOWN", key |-> key]

Quit == [type |-> "QUIT"]

\* the state the handlers leave
Handled(st) ==
    /\ st.toggles <= MaxToggles
    /\ rects' = st.rects
    /\ preview' = st.preview
    /\ slicedir' = st.slicedir
    /\ slicedirs' = st.slicedirs
    /\ toggles' = st.toggles

\* one event handed to RectCutState.on_mousebuttondown
On_mousebuttondown(event) ==
    /\ Handled(on_mousebuttondown(PState, event))
    /\ last' = Call("on_mousebuttondown", <<event.button, tospace(event.pos)>>)
    /\ UNCHANGED <<root, arects, ret, engine>>

\* one event handed to RectCutState.on_mousemotion
On_mousemotion(event) ==
    /\ Handled(on_mousemotion(PState, event))
    /\ last' = Call("on_mousemotion", tospace(event.pos))
    /\ UNCHANGED <<root, arects, ret, engine>>

NextHandlers ==
    \/ \E b \in {"BUTTON_LEFT", "BUTTON_RIGHT"}, p \in Points(root) :
          On_mousebuttondown(MouseButtonDown(b, p))
    \/ \E p \in Points(root) : On_mousemotion(MouseMotion(p))

SpecHandlers == Init /\ [][NextHandlers]_vars

MaxEvents == 2     \* events delivered to one Engine.update pass

\* the events pygame delivers to the engine
EngineEvents ==
    { MouseButtonDown("BUTTON_LEFT", <<50, 50>>),
      MouseButtonDown("BUTTON_LEFT", <<25, 25>>),
      MouseButtonDown("BUTTON_RIGHT", <<25, 25>>),
      MouseMotion(<<25, 25>>),
      KeyDown("K_q") }

Batches == UNION { [1..n -> EngineEvents] : n \in 0..MaxEvents }

\* pygame.event.get(): the QUIT that quit() posted, then the new events
Delivered(batch) == IF engine.posted THEN <<Quit>> \o batch ELSE batch

\* Engine.update(state), called by Engine.run while self.running
Engine_update(batch) ==
    /\ engine.running
    /\ LET st == DispatchAll(PState, Delivered(batch)) IN
       /\ Handled(st)
       /\ engine' = [running |-> st.running, posted |-> st.posted,
                     batch |-> Delivered(batch), applied |-> st.calls,
                     len0 |-> Len(rects)]
    /\ last' = Call("update", None)
    /\ UNCHANGED <<root, arects, ret>>

InitEngine == Init /\ root = ExampleRoot

NextEngine == \E batch \in Batches : Engine_update(batch)

SpecEngine == InitEngine /\ [][NextEngine]_vars

(* ------------------------ RectAttr in isolation ------------------------ *)

\* RectAttr(rect, attribute) made on one rectangle
InitAttr ==
    /\ root = ExampleRoot
    /\ rects = <<root>>
    /\ preview = None
    /\ slicedirs = CycleAdvance(1)
    /\ slicedir = CycleValue(1)
    /\ toggles = 0
    /\ last = Call("init", None)
    /\ arects \in { <<r>> : r \in AttrRects }
    /\ ret = None
    /\ engine = EngineStart

RectAttr_collideattr(i, attribute, value) ==
    /\ ret' = collideattr(arects[i], attribute, value)
    /\ last' = Call("collideattr", <<i, attribute, value>>)
    /\ UNCHANGED <<partition, arects, engine>>

RectAttr_value_get(i, attribute) ==
    /\ ret' = value_get(arects[i], attribute)
    /\ last' = Call("value", <<i, attribute>>)
    /\ UNCHANGED <<partition, arects, engine>>

RectAttr_value_set(i, attribute, value) ==
    /\ arects' = [arects EXCEPT ![i] = value_set(arects[i], attribute, value)]
    /\ ret' = None
    /\ last' = Call("value=", <<i, attribute, value>>)
    /\ UNCHANGED <<partition, engine>>

NextAttr ==
    \/ \E i \in DOMAIN arects, a \in Attributes, v \in AttrValues :
          RectAttr_collideattr(i, a, v)
    \/ \E i \in DOMAIN arects, a \in Attributes : RectAttr_value_get(i, a)
    \/ \E i \in DOMAIN arects, a \in Attributes, v \in AttrValues :
          RectAttr_value_set(i, a, v)

SpecAttr == InitAttr /\ [][NextAttr]_vars

(* ------------------------------ RectLink ------------------------------- *)

\* RectLink(RectAttr(A, 'right'), RectAttr(B, 'left'), 'x') on the pair
\* arects = <<A, B>>
LinkAttrs == << <<1, "right">>, <<2, "left">> >>

\* the pair the documented drag is made on, (0,0,100,100) cut at x = 50, and
\* the pair the same cut makes of the initial rectangle of run()
ExamplePairs ==
    { << Rect(0, 0, 50, 100), Rect(50, 0, 50, 100) >>,
      << Rect(12, 12, 38, 75), Rect(50, 12, 37, 75) >> }

ExampleDeltas == {10}

LinkPairs == { <<a, b>> : a \in AttrRects, b \in AttrRects } \cup ExamplePairs

Deltas == ((0 - MaxCoord)..MaxCoord) \cup ExampleDeltas

\* the drags followed: the documented one, and those that keep the small
\* pairs small
InSpan(pair) ==
    \A i \in DOMAIN pair :
        /\ pair[i].left \in (0 - 2 * MaxCoord)..(2 * MaxCoord)
        /\ pair[i].width \in (0 - 2 * MaxCoord)..(2 * MaxCoord)

\* RectLink.collideattr(value)
LinkCollide(pair, value) ==
    \/ collideattr(pair[LinkAttrs[1][1]], LinkAttrs[1][2], value)
    \/ collideattr(pair[LinkAttrs[2][1]], LinkAttrs[2][2], value)

\* apply_delta(amount): amount is added to the value of both members
LinkApplyDelta(pair, amount) ==
    [ i \in DOMAIN pair |->
        IF \E k \in DOMAIN LinkAttrs : LinkAttrs[k][1] = i
        THEN LET k == CHOOSE k \in DOMAIN LinkAttrs : LinkAttrs[k][1] = i
                 a == LinkAttrs[k][2]
             IN  value_set(pair[i], a, value_get(pair[i], a) + amount)
        ELSE pair[i] ]

InitLink ==
    /\ root = ExampleRoot
    /\ rects = <<root>>
    /\ preview = None
    /\ slicedirs = CycleAdvance(1)
    /\ slicedir = CycleValue(1)
    /\ toggles = 0
    /\ last = Call("init", None)
    /\ arects \in LinkPairs
    /\ ret = None
    /\ engine = EngineStart

RectLink_collideattr(value) ==
    /\ ret' = LinkCollide(arects, value)
    /\ last' = Call("link.collideattr", value)
    /\ UNCHANGED <<partition, arects, engine>>

RectLink_apply_delta(amount) ==
    /\ \/ InSpan(LinkApplyDelta(arects, amount))
       \/ arects \in ExamplePairs /\ amount \in ExampleDeltas
    /\ arects' = LinkApplyDelta(arects, amount)
    /\ ret' = None
    /\ last' = Call("apply_delta", amount)
    /\ UNCHANGED <<partition, engine>>

NextLink ==
    \/ \E v \in AttrValues : RectLink_collideattr(v)
    \/ \E d \in Deltas : RectLink_apply_delta(d)

SpecLink == InitLink /\ [][NextLink]_vars

(* ======================================================================= *)
(* Properties                                                              *)
(* ======================================================================= *)

Area(r) == r.width * r.height

RECURSIVE SumArea(_)
SumArea(s) == IF s = <<>> THEN 0 ELSE Area(Head(s)) + SumArea(Tail(s))

Max(a, b) == IF a >= b THEN a ELSE b

Min(a, b) == IF a <= b THEN a ELSE b

\* the integer points (x, y) with left <= x < right and top <= y < bottom
Cells(r) == (r.left..(right(r) - 1)) \X (r.top..(bottom(r) - 1))

\* the integer points that satisfy that condition for both r and q
SharedCells(r, q) ==
    (Max(r.left, q.left)..(Min(right(r), right(q)) - 1))
        \X (Max(r.top, q.top)..(Min(bottom(r), bottom(q)) - 1))

PointIn(r, p) ==
    /\ r.left <= p[1] /\ p[1] < right(r)
    /\ r.top <= p[2] /\ p[2] < bottom(r)

OnBorder(r, p) ==
    \/ p[1] = r.left \/ p[1] = right(r) - 1
    \/ p[2] = r.top \/ p[2] = bottom(r) - 1

Interior(r, p) == PointIn(r, p) /\ ~ OnBorder(r, p)

\* p is outside every rectangle, or on the border of one that contains it
OffInterior(s, p) ==
    \/ \A i \in DOMAIN s : ~ PointIn(s[i], p)
    \/ \E i \in DOMAIN s : PointIn(s[i], p) /\ OnBorder(s[i], p)

\* index of the first rectangle of s whose interior holds p
FirstInterior(s, p) ==
    CHOOSE i \in DOMAIN s :
        Interior(s[i], p) /\ \A j \in 1..(i - 1) : ~ Interior(s[j], p)

\* s without its i-th element
Without(s, i) == [j \in 1..(Len(s) - 1) |-> IF j < i THEN s[j] ELSE s[j + 1]]

\* C1: the areas of the rectangles of the list always add up to the area of
\* the root rectangle.
C1_AreaConserved == SumArea(rects) = Area(root)

C1_Witness == last.op = "cutrect" /\ Len(rects) >= 3 /\ root.left # 0

\* C2: no integer point lies in two different rectangles of the list.
C2_Disjoint ==
    \A i, j \in DOMAIN rects : i # j => SharedCells(rects[i], rects[j]) = {}

C2_Witness ==
    /\ \E i, j \in DOMAIN rects : right(rects[i]) = rects[j].left
    /\ \E i, j \in DOMAIN rects : bottom(rects[i]) = rects[j].top

\* C3: every rectangle of the list lies inside the root rectangle, and every
\* integer point of the root rectangle lies in some rectangle of the list.
C3_ExactCover ==
    /\ \A i \in DOMAIN rects :
          /\ root.left <= rects[i].left /\ right(rects[i]) <= right(root)
          /\ root.top <= rects[i].top /\ bottom(rects[i]) <= bottom(root)
    /\ \A p \in Cells(root) : \E i \in DOMAIN rects : PointIn(rects[i], p)

C3_Witness == Len(rects) = 3 /\ root.width >= 4 /\ toggles >= 1

\* the two rectangles C4 expects from a cut of r at p
C4_Parts(r, dir, p) ==
    IF dir = VERTICAL
    THEN << Rect(r.left, r.top, p[1] - r.left, r.height),
            Rect(p[1], r.top, right(r) - p[1], r.height) >>
    ELSE << Rect(r.left, r.top, r.width, p[2] - r.top),
            Rect(r.left, p[2], r.width, bottom(r) - p[2]) >>

\* C4: a cut at a point in the interior of some rectangle removes the first
\* such rectangle, keeps the others in order and appends the two parts, left
\* then right (VERTICAL) or top then bottom (HORIZONTAL); on the root
\* (0,0,100,100) the cuts at (50,50) and, after a switch, at (25,25) give the
\* rectangles of the documented example.
C4_CutResult ==
    [][ last'.op = "cutrect" =>
          LET p == last'.arg IN
          /\ (\E i \in DOMAIN rects : Interior(rects[i], p)) =>
                LET i == FirstInterior(rects, p)
                IN  rects' = Without(rects, i) \o C4_Parts(rects[i], slicedir, p)
          /\ (rects = <<ExampleRoot>> /\ toggles = 0 /\ p = <<50, 50>>) =>
                rects' = << Rect(0, 0, 50, 100), Rect(50, 0, 50, 100) >>
          /\ ( /\ rects = << Rect(0, 0, 50, 100), Rect(50, 0, 50, 100) >>
               /\ toggles = 1 /\ p = <<25, 25>> ) =>
                rects' = << Rect(50, 0, 50, 100),
                            Rect(0, 0, 50, 25), Rect(0, 25, 50, 75) >>
      ]_vars

C4_Witness ==
    /\ last = Call("cutrect", <<25, 25>>)
    /\ rects = << Rect(50, 0, 50, 100), Rect(0, 0, 50, 25), Rect(0, 25, 50, 75) >>

\* C5: a cut at a point outside every rectangle, or on the border pixels of
\* the rectangle that contains it, leaves the list as it was.
C5_CutNoOp ==
    [][ (last'.op = "cutrect" /\ OffInterior(rects, last'.arg)) =>
          rects' = rects ]_vars

C5_Witness ==
    /\ last.op = "cutrect"
    /\ slicedir = HORIZONTAL
    /\ Len(rects) >= 2
    /\ \E i \in DOMAIN rects :
          /\ PointIn(rects[i], last.arg)
          /\ last.arg[2] = bottom(rects[i]) - 1
          /\ last.arg[1] \notin {rects[i].left, right(rects[i]) - 1}

\* the segment C6 expects for a point p in the interior of r
C6_Line(r, dir, p) ==
    IF dir = VERTICAL
    THEN << <<p[1], r.top>>, <<p[1], bottom(r) - 1>> >>
    ELSE << <<r.left, p[2]>>, <<right(r) - 1, p[2]>> >>

\* C6: update_preview at a point in the interior of a rectangle r sets the
\* preview to the vertical line at x from top to bottom-1 of r (VERTICAL) or
\* to the horizontal line at y from left to right-1 of r (HORIZONTAL).
C6_PreviewValue ==
    [][ last'.op = "update_preview" =>
          \A i \in DOMAIN rects :
              Interior(rects[i], last'.arg) =>
                  preview' = C6_Line(rects[i], slicedir, last'.arg) ]_vars

C6_Witness ==
    /\ last.op = "update_preview"
    /\ slicedir = HORIZONTAL
    /\ Len(rects) >= 2
    /\ \E i \in DOMAIN rects :
          /\ Interior(rects[i], last.arg)
          /\ preview = C6_Line(rects[i], HORIZONTAL, last.arg)

\* C7: update_preview at a point outside every rectangle, or on the border
\* pixels of the rectangle that contains it, leaves the preview empty,
\* whatever it held before.
C7_PreviewCleared ==
    [][ (last'.op = "update_preview" /\ OffInterior(rects, last'.arg)) =>
          preview' = None ]_vars

C7_Witness ==
    /\ last.op = "update_preview"
    /\ preview = None
    /\ Len(rects) >= 2
    /\ \E i \in DOMAIN rects :
          PointIn(rects[i], last.arg) /\ last.arg[1] = right(rects[i]) - 1

\* C8: the direction is VERTICAL after an even number of switchdir calls
\* (none included) and HORIZONTAL after an odd number, whatever cuts and
\* preview updates were made in between.
C8_OrientationCycling ==
    slicedir = (IF toggles % 2 = 0 THEN VERTICAL ELSE HORIZONTAL)

C8_Witness ==
    /\ toggles = 3
    /\ slicedir = HORIZONTAL
    /\ Len(rects) >= 2
    /\ preview # None

\* C9: switchdir changes the direction and leaves the list of rectangles
\* and the preview as they were.
C9_SwitchFrame ==
    [][ last'.op = "switchdir" =>
          /\ rects' = rects
          /\ preview' = preview
          /\ slicedir' # slicedir ]_vars

C9_Witness ==
    last.op = "switchdir" /\ preview # None /\ Len(rects) >= 2

\* C10, as stated: collideattr(v) is true exactly when v is rect.left for a
\* `left` attribute and exactly when v is rect.width for a `right` attribute,
\* that is, exactly when v is what the value getter returns.
C10_CollidesIffValue ==
    last.op = "collideattr" =>
        LET r == arects[last.arg[1]]
            a == last.arg[2]
            v == last.arg[3]
        IN  /\ ret = (v = (IF a = "left" THEN r.left ELSE r.width))
            /\ ret = (v = value_get(r, a))

\* C10, amended: collideattr(v) is true exactly when v is the absolute
\* coordinate of the named edge, rect.left for `left` and rect.left +
\* rect.width for `right`; so it agrees with the value getter for `left`, and
\* for `right` it is true exactly when v is rect.left plus the getter's value.
C10_CollidesIffEdge ==
    last.op = "collideattr" =>
        LET r == arects[last.arg[1]]
            a == last.arg[2]
            v == last.arg[3]
        IN  /\ ret = (v = (IF a = "left" THEN r.left ELSE r.left + r.width))
            /\ a = "left" => ret = (v = value_get(r, a))
            /\ a = "right" => ret = (v = r.left + value_get(r, a))

C10_Witness ==
    /\ last.op = "collideattr"
    /\ last.arg[2] = "right"
    /\ ret = TRUE
    /\ arects[last.arg[1]].left > 0
    /\ last.arg[3] # value_get(arects[last.arg[1]], "right")

\* C12: writing v to a `left` attribute sets left to v and keeps right, top
\* and height; writing v to a `right` attribute sets width to v and keeps
\* left, top and height; the getter then returns v.
C12_ValueAccessor ==
    [][ last'.op = "value=" =>
          LET i == last'.arg[1]
              a == last'.arg[2]
              v == last'.arg[3]
              r == arects[i]
              q == arects'[i]
          IN  /\ a = "left" =>
                    /\ q.left = v
                    /\ q.left + q.width = r.left + r.width
              /\ a = "right" => (q.width = v /\ q.left = r.left)
              /\ q.top = r.top /\ q.height = r.height
              /\ value_get(q, a) = v ]_vars

C12_Witness ==
    /\ last.op = "value="
    /\ last.arg[2] = "left"
    /\ arects[last.arg[1]].left = last.arg[3]
    /\ arects[last.arg[1]].width < 0

\* what C11 says of every drag by d of a pair A, B with A.right = B.left
C11_Drag(A, B, A2, B2, d) ==
    /\ A2.width = A.width + d
    /\ B2.left = B.left + d
    /\ B2.width = B.width - d
    /\ A2.left = A.left
    /\ B2.left + B2.width = B.left + B.width
    /\ A2.left + A2.width = B2.left

\* C11, as stated: apply_delta(d) on the link of A's right edge and B's left
\* edge, with A.right = B.left, adds d to A.width and to B.left and takes d
\* from B.width, so A.left and B.right stay and A.right = B.left still holds;
\* with the shared edge at x = 50, apply_delta(10) gives A.width = 60 and
\* B.left = 60 and takes 10 from B.width.
C11_LinkedDrag ==
    [][ (last'.op = "apply_delta" /\ right(arects[1]) = arects[2].left) =>
          LET A == arects[1]
              B == arects[2]
              d == last'.arg
          IN  /\ C11_Drag(A, B, arects'[1], arects'[2], d)
              /\ (B.left = 50 /\ d = 10) =>
                    /\ arects'[1].width = 60
                    /\ arects'[2].left = 60
                    /\ arects'[2].width = B.width - 10 ]_vars

\* C11, amended: the same, the example holding for a pair whose rectangle A
\* has left = 0 (so that its width is the coordinate of the shared edge).
C11_LinkedDragFromZero ==
    [][ (last'.op = "apply_delta" /\ right(arects[1]) = arects[2].left) =>
          LET A == arects[1]
              B == arects[2]
              d == last'.arg
          IN  /\ C11_Drag(A, B, arects'[1], arects'[2], d)
              /\ (A.left = 0 /\ B.left = 50 /\ d = 10) =>
                    /\ arects'[1].width = 60
                    /\ arects'[2].left = 60
                    /\ arects'[2].width = B.width - 10 ]_vars

C11_Witness ==
    /\ last = Call("apply_delta", 10)
    /\ arects = << Rect(0, 0, 60, 100), Rect(60, 0, 40, 100) >>

\* C13: the list always holds at least one rectangle and never gets shorter;
\* a cut at a point in the interior of some rectangle makes it one longer,
\* and every other call leaves its length as it was.
C13_RectCount ==
    [][ /\ Len(rects) >= 1
        /\ Len(rects') >= Len(rects)
        /\ IF /\ last'.op = "cutrect"
              /\ \E i \in DOMAIN rects : Interior(rects[i], last'.arg)
           THEN Len(rects') = Len(rects) + 1
           ELSE Len(rects') = Len(rects) ]_vars

C13_Witness ==
    /\ Len(rects) = 4
    /\ last.op = "cutrect"
    /\ \E i \in DOMAIN rects : PointIn(rects[i], last.arg) /\ OnBorder(rects[i], last.arg)

\* C16: cutrect leaves the direction and the preview as they were, whether
\* or not it cuts a rectangle.
C16_CutFrame ==
    [][ last'.op = "cutrect" =>
          /\ slicedir' = slicedir
          /\ slicedirs' = slicedirs
          /\ preview' = preview ]_vars

C16_Witness ==
    /\ last.op = "cutrect"
    /\ preview # None
    /\ toggles = 2
    /\ Len(rects) >= 3

\* C17: update_preview leaves the list of rectangles and the direction as
\* they were.
C17_PreviewFrame ==
    [][ last'.op = "update_preview" =>
          /\ rects' = rects
          /\ slicedir' = slicedir
          /\ slicedirs' = slicedirs ]_vars

C17_Witness ==
    /\ last.op = "update_preview"
    /\ preview # None
    /\ toggles = 1
    /\ Len(rects) >= 3

\* C18: every rectangle of the list has width >= 1 and height >= 1.
C18_NoDegenerate ==
    \A i \in DOMAIN rects : rects[i].width >= 1 /\ rects[i].height >= 1

C18_Witness ==
    /\ last.op = "cutrect"
    /\ \E i \in DOMAIN rects : rects[i].width = 1
    /\ \E i \in DOMAIN rects : rects[i].height = 1

\* C20: the list never holds more rectangles than the root has cells, and a
\* rectangle with width <= 2 or height <= 2 is still in the list after any
\* call.
C20_CutsRunOut ==
    [][ /\ Len(rects) <= Area(root)
        /\ Len(rects') <= Area(root)
        /\ \A i \in DOMAIN rects :
              (rects[i].width <= 2 \/ rects[i].height <= 2) =>
                  \E j \in DOMAIN rects' : rects'[j] = rects[i] ]_vars

C20_Witness ==
    /\ last.op = "cutrect"
    /\ \E i \in DOMAIN rects :
          /\ PointIn(rects[i], last.arg)
          /\ rects[i].height <= 2
          /\ rects[i].width >= 3
          /\ last.arg[1] \notin {rects[i].left, right(rects[i]) - 1}

\* the calls C15 expects one delivered event to make on the partition
C15_EventCalls(event) ==
    IF event.type = "MOUSEBUTTONDOWN" /\ event.button = "BUTTON_LEFT"
    THEN << Call("cutrect", tospace(event.pos)) >>
    ELSE IF event.type = "MOUSEBUTTONDOWN" /\ event.button = "BUTTON_RIGHT"
    THEN << Call("switchdir", None), Call("update_preview", tospace(event.pos)) >>
    ELSE IF event.type = "MOUSEMOTION"
    THEN << Call("update_preview", tospace(event.pos)) >>
    ELSE << >>

RECURSIVE C15_BatchCalls(_)
C15_BatchCalls(events) ==
    IF events = <<>> THEN <<>>
    ELSE C15_EventCalls(Head(events)) \o C15_BatchCalls(Tail(events))

C15_Count(calls, op) == Cardinality({ i \in DOMAIN calls : calls[i].op = op })

\* C15, as stated: in one Engine.update pass at most one cut and at most one
\* preview update are applied to the partition, in the order the events were
\* delivered.
C15_OneCutOnePreview ==
    /\ Len(rects) - engine.len0 <= 1
    /\ C15_Count(engine.applied, "cutrect") <= 1
    /\ C15_Count(engine.applied, "update_preview") <= 1
    /\ engine.applied = C15_BatchCalls(engine.batch)

\* C15, amended: in one Engine.update pass every delivered event is handled
\* once, in the order delivered, and one event applies at most one cut and
\* at most one preview update; the pass applies one cut per left click and
\* one preview update per right click or motion it was delivered.
C15_DispatchInOrder ==
    /\ engine.applied = C15_BatchCalls(engine.batch)
    /\ \A k \in DOMAIN engine.batch :
          /\ C15_Count(C15_EventCalls(engine.batch[k]), "cutrect") <= 1
          /\ C15_Count(C15_EventCalls(engine.batch[k]), "update_preview") <= 1
    /\ Len(rects) - engine.len0 <= C15_Count(engine.applied, "cutrect")

C15_Witness ==
    /\ last.op = "update"
    /\ Len(engine.batch) = 2
    /\ Len(rects) = engine.len0 + 2

\* C19: under the input handlers, a preview that is set is a vertical segment
\* when the direction is VERTICAL and a horizontal one when it is HORIZONTAL,
\* and both its end points lie in one rectangle of the list.
C19_PreviewConsistent ==
    preview # None =>
        /\ slicedir = VERTICAL => preview[1][1] = preview[2][1]
        /\ slicedir = HORIZONTAL => preview[1][2] = preview[2][2]
        /\ \E i \in DOMAIN rects :
              PointIn(rects[i], preview[1]) /\ PointIn(rects[i], preview[2])

C19_Witness ==
    /\ preview # None
    /\ last.op = "on_mousebuttondown"
    /\ last.arg[1] = "BUTTON_LEFT"
    /\ slicedir = HORIZONTAL
    /\ \E i \in DOMAIN rects :
          /\ PointIn(rects[i], preview[1])
          /\ PointIn(rects[i], preview[2])
          /\ preview[1][2] = rects[i].top
          /\ rects[i].top > root.top

====
